---- MODULE Spec2Model ----
(***************************************************************************)
(* A model of the daily_meditation retrieval pipeline:                     *)
(*   - MeditationOrchestrator.generate_meditation (app/agents/orchestrator)*)
(*     together with the retriever, downloader and quality checker it      *)
(*     drives, over an abstract file system;                               *)
(*   - AppleMusicAgent.find_meditation (app/agents/apple_music_api) with   *)
(*     its search cache and recently-used list.                            *)
(***************************************************************************)
EXTENDS Integers, Sequences, FiniteSets, TLC

(***************************************************************************)
(* Program constants.                                                      *)
(***************************************************************************)
max_attempts == 5
max_url_attempts == 3
MinDownloadBytes == 10240
MinPlaceholderBytes == 1024
MinAudioBytes == 1024
SilentMp3Bytes == 41050

(***************************************************************************)
(* Bounds of the model.                                                    *)
(***************************************************************************)
MaxPool == 2
MaxAppleCalls == 6
MaxTasks == 2
MaxMinutes == 16
MaxHours == 1
MaxFeedback == 4

NoUrl == "None"
NoPath == [kind |-> "None", mood |-> "None", language |-> "None", url |-> "None"]
NoneMood == "None"

(***************************************************************************)
(* Inputs of generate_meditation: (mood, language, output path).  NoneMood *)
(* stands for a mood that is not a string: mood.lower() raises on it       *)
(* inside the retriever.  "sleepy" is a mood without a curated list.  The  *)
(* output path is a fresh temporary file ("temp") or a path given by the   *)
(* caller in a directory that cannot be written ("unwritable").            *)
(***************************************************************************)
Requests ==
    { << "calm", "english", "temp" >>,
      << "calm", "english", "unwritable" >>,
      << "sleepy", "english", "temp" >>,
      << "calm", "french", "temp" >>,
      << NoneMood, "english", "temp" >> }

Range(s) == {s[i] : i \in 1..Len(s)}

Min(a, b) == IF a < b THEN a ELSE b

\* The first MaxPool entries of a curated list.
Pool(s) == {s[i] : i \in 1..Min(Len(s), MaxPool)}

(***************************************************************************)
(* AudioRetrieverAgent: the curated pools find_meditation draws from.      *)
(***************************************************************************)
ucla_french_meditations ==
    << "French-bodyscan", "French-breathsoundbody", "French-breathing",
       "French-complete", "French-lovingKindness",
       "French-workingwithdifficulties" >>

archive_direct_files ==
    [ calm      |-> << "InterludeForMindfulness",
                       "meditation-music-relax-mind-body",
                       "MeditationMusic_201610" >>,
      focused   |-> << "MeditationMusic_20162107",
                       "ambient-sleep-music-for-deep-sleep",
                       "night-meditation-sleeping-music" >>,
      relaxed   |-> << "sacred-meditation-music",
                       "calm-meditation-music-for-stress-relief",
                       "MeditationCompilation" >>,
      energized |-> << "morning-meditation-wake-up-music",
                       "meditation-music-relax-mind-body",
                       "ambient-meditation-music" >>,
      grateful  |-> << "peaceful-music-for-meditation",
                       "InterludeForMindfulness",
                       "indian-meditation-music" >>,
      default   |-> << "peaceful-music-for-meditation",
                       "meditation-music-relax-mind-body",
                       "ambient-sleep-music-for-deep-sleep",
                       "MeditationMusic_20162107" >> ]

\* s.lower().strip() on the spellings the requests use; a text already in
\* lower case without surrounding blanks is left as it is.
lower_strip(s) ==
    CASE s \in {"Calm", " calm ", "CALM"} -> "calm"
      [] s \in {"English", "english ", "ENGLISH"} -> "english"
      [] s \in {"French", " french"} -> "french"
      [] OTHER -> s

\* The URLs one call of find_meditation may return (random.choice over the
\* pool); the call raises instead when the mood is not a string.
find_meditation(m, l) ==
    IF lower_strip(l) = "french"
    THEN Pool(ucla_french_meditations)
    ELSE Pool(archive_direct_files[IF lower_strip(m) \in DOMAIN archive_direct_files
                                   THEN lower_strip(m) ELSE "default"])

find_meditation_raises(m) == m = NoneMood

PoolUrls == Range(ucla_french_meditations)
            \cup UNION {Range(archive_direct_files[k]) : k \in DOMAIN archive_direct_files}

\* The hardcoded last-resort reference of the orchestrator.
fallback_url == "freemindfulness/Breath meditation"

(***************************************************************************)
(* The file system: a function from the paths that exist to their content. *)
(* A content records where the bytes came from (src), their size, and the  *)
(* audio properties check_quality measures on them (q).                    *)
(***************************************************************************)
Qualities == {"good", "goodlong", "bad", "badlong"}

EmptyFile == [src |-> "empty", size |-> 0, q |-> "bad", trimmed |-> FALSE]

Exists(f, p) == p \in DOMAIN f

getsize(f, p) == f[p].size

WriteFile(f, p, c) == [x \in DOMAIN f \cup {p} |-> IF x = p THEN c ELSE f[x]]

copy2(f, from, to) == WriteFile(f, to, f[from])

touch(f, p) == IF Exists(f, p) THEN f ELSE WriteFile(f, p, EmptyFile)

unlink(f, ps) == [x \in DOMAIN f \ ps |-> f[x]]

\* AudioDownloaderAgent._generate_filename: one cache file per (mood, language, URL).
CachePath(m, l, u) == [kind |-> "cache", mood |-> m, language |-> l, url |-> u]

\* AudioDownloaderAgent._get_fallback_audio_path: fallback_{mood}_{language}.mp3.
FallbackPath(m, l) == [kind |-> "fallback", mood |-> m, language |-> l, url |-> NoUrl]

\* trim_audio_if_needed: {base_path}_trimmed.mp3.
TrimmedPath(p) == [p EXCEPT !.kind = "trimmed"]

\* The output path of a run: a fresh temporary file, or a path given by the
\* caller in a directory that cannot be written.
OutputPath(o) == [kind |-> o, mood |-> "None", language |-> "None", url |-> NoUrl]

Writable(p) == p.kind # "unwritable"

\* What a server may send for a URL that the downloader then keeps: any
\* file _is_audio_file lets through (at least 1 KB).
Served(u) ==
    {[src |-> u, size |-> SilentMp3Bytes, q |-> q, trimmed |-> FALSE] : q \in Qualities}
    \cup {[src |-> u, size |-> 5000, q |-> "bad", trimmed |-> FALSE]}

\* What _get_fallback_audio_path leaves at the fallback path when it has to
\* create it: a file larger than 10 KB (the synthesized silent MP3; the
\* downloaded fallback is handled like it), or an empty file.
FallbackFileContents(m) ==
    { [src |-> "silent_mp3", size |-> SilentMp3Bytes, q |-> "bad", trimmed |-> FALSE],
      EmptyFile }

\* _create_error_file then _get_fallback_audio_path: the fallback path, created if absent.
create_error_file(f, m, l) ==
    LET fb == FallbackPath(m, l) IN
    IF Exists(f, fb)
    THEN {[raised |-> FALSE, path |-> fb, fs |-> f]}
    ELSE {[raised |-> FALSE, path |-> fb, fs |-> WriteFile(f, fb, c)] :
              c \in FallbackFileContents(m)}

\* AudioDownloaderAgent.download_audio: the outcomes of one call.
download_audio(f, u, m, l) ==
    LET file_path == CachePath(m, l, u) IN
    IF Exists(f, file_path)
    THEN {[raised |-> FALSE, path |-> file_path, fs |-> f]}
    ELSE {[raised |-> FALSE, path |-> file_path, fs |-> WriteFile(f, file_path, c)] :
              c \in Served(u)}
         \cup create_error_file(f, m, l)
         \cup {[raised |-> TRUE, path |-> NoPath, fs |-> f]}

\* AudioQualityCheckerAgent.check_quality on a file that exists.
check_quality(f, p) ==
    IF ~Exists(f, p) \/ getsize(f, p) < MinAudioBytes
    THEN [is_acceptable |-> FALSE, long |-> FALSE]
    ELSE [is_acceptable |-> f[p].q \in {"good", "goodlong"},
          long |-> f[p].q \in {"goodlong", "badlong"} /\ ~f[p].trimmed]

\* AudioQualityCheckerAgent.trim_audio_if_needed: the outcomes of one call.
trim_audio_if_needed(f, p) ==
    IF f[p].q \in {"goodlong", "badlong"} /\ ~f[p].trimmed
    THEN { [path |-> TrimmedPath(p),
            fs |-> WriteFile(f, TrimmedPath(p), [f[p] EXCEPT !.trimmed = TRUE])],
           [path |-> p, fs |-> f] }
    ELSE { [path |-> p, fs |-> f] }

(***************************************************************************)
(* State of one MeditationOrchestrator and of the run of                   *)
(* generate_meditation in progress.                                        *)
(***************************************************************************)
VARIABLES
    pc,                \* position of the run inside generate_meditation
    mood, language,    \* arguments of the run
    output_path,
    attempt,           \* loop variable of the attempt loop
    url_attempt,       \* loop variable of the URL selection loop
    meditation_url,
    audio_path,
    is_acceptable,
    quality_details,
    failed_urls,
    temp_files,
    final_audio_path,
    fs,                \* the file system
    handed,            \* history: URLs handed to the downloader by the attempt loop
    accepted_url,      \* history: the URL whose file the checker accepted
    via                \* history: the statement that set final_audio_path

orch_vars == << pc, mood, language, output_path, attempt, url_attempt,
                meditation_url, audio_path, is_acceptable, quality_details,
                failed_urls, temp_files, final_audio_path, fs, handed,
                accepted_url, via >>

(***************************************************************************)
(* State of one AppleMusicAgent.                                           *)
(***************************************************************************)
VARIABLES
    search_cache,           \* cache key -> list of tracks
    recently_used_tracks,   \* list of track ids, oldest first
    apple_calls,            \* calls of find_meditation made so far
    search_calls,           \* calls of _search_apple_music made so far
    last_call               \* history: the last call of find_meditation

apple_vars == << search_cache, recently_used_tracks, apple_calls, search_calls,
                 last_call >>

(***************************************************************************)
(* Calls of find_meditation in flight on the event loop: a call that       *)
(* misses the cache is suspended at each await of its search loop.         *)
(***************************************************************************)
VARIABLES
    calls    \* task -> position, cache key, all_tracks, queries made, stored list

conc_vars == << calls >>

(***************************************************************************)
(* Construction of an AppleMusicAgent from its persisted cache file.       *)
(***************************************************************************)
VARIABLES
    cache_file,    \* content of apple_music_cache.json
    agent_state    \* "unbuilt", "ready", or "raised" once a call has raised

load_vars == << cache_file, agent_state >>

(***************************************************************************)
(* One call of a function that reads no state of the objects above: its    *)
(* arguments and what it returned.                                         *)
(***************************************************************************)
VARIABLES
    args,        \* the arguments of the call
    returned     \* [done |-> FALSE], or [done |-> TRUE, value |-> ...]

pure_vars == << args, returned >>

(***************************************************************************)
(* State of one FeedbackCollectorAgent.                                    *)
(***************************************************************************)
VARIABLES
    feedback_data,     \* number of feedback_entries, and preference_data
    recommendations    \* history: the last get_personalized_recommendations

feedback_vars == << feedback_data, recommendations >>

(***************************************************************************)
(* One call of OpenAIMeditationAgent.find_meditation.                      *)
(***************************************************************************)
VARIABLES
    openai_call    \* position in the call, its locals, and what it returned

openai_vars == << openai_call >>

(***************************************************************************)
(* What earlier calls of generate_meditation on this orchestrator left.    *)
(***************************************************************************)
VARIABLES
    earlier_failed    \* history: the URLs in failed_urls when earlier calls ended

runs_vars == << earlier_failed >>

(***************************************************************************)
(* The feedback_entries log of one FeedbackCollectorAgent, and the clock.  *)
(***************************************************************************)
VARIABLES
    feedback_entries,   \* the entries, oldest first
    now,                \* datetime.now(), in units of 12 hours
    form_asked,         \* history: the last call of should_show_feedback_form
    last_save           \* history: the last call of save_feedback that wrote

form_vars == << feedback_entries, now, form_asked, last_save >>

(***************************************************************************)
(* The module state of app.utils.scheduler and its threads.                *)
(***************************************************************************)
VARIABLES
    is_running,         \* the module flag
    scheduler_thread,   \* the module variable: a thread, or None
    thread_pc,          \* per thread: its position in run_scheduler_thread
    init_pc             \* per caller: its position in init_scheduler

sched_vars == << is_running, scheduler_thread, thread_pc, init_pc >>

\* The state of the components added after the ones above.
late_vars == << openai_vars, runs_vars, form_vars, sched_vars >>

\* What an action of the orchestrator, of the sequential agent, and of the
\* concurrent calls, leaves alone.
not_orch_vars ==
    << apple_vars, conc_vars, load_vars, pure_vars, feedback_vars, late_vars >>

not_apple_vars ==
    << orch_vars, conc_vars, load_vars, pure_vars, feedback_vars, late_vars >>

not_agent_vars ==
    << orch_vars, load_vars, pure_vars, feedback_vars, late_vars >>

not_pure_vars ==
    << orch_vars, apple_vars, conc_vars, load_vars, feedback_vars, late_vars >>

not_feedback_vars ==
    << orch_vars, apple_vars, conc_vars, load_vars, pure_vars, late_vars >>

NoDetails == [is_acceptable |-> FALSE, long |-> FALSE]

OrchInit ==
    /\ pc = "idle"
    /\ mood = NoneMood
    /\ language = "english"
    /\ output_path = NoPath
    /\ attempt = 0
    /\ url_attempt = 0
    /\ meditation_url = NoUrl
    /\ audio_path = NoPath
    /\ is_acceptable = FALSE
    /\ quality_details = NoDetails
    /\ failed_urls = {}
    /\ temp_files = << >>
    /\ final_audio_path = NoPath
    /\ fs = << >>
    /\ handed = {}
    /\ accepted_url = NoUrl
    /\ via = "none"

\* for attempt in range(1, self.max_attempts + 1): is there another iteration?
LoopContinues(a) == a < max_attempts

\* URL selection loop: query again after the n-th query returned u?
NeedsRequeryNever(u, failed, n) == FALSE

NeedsRequeryOffByOne(u, failed, n) == u \in failed /\ n <= max_url_attempts

NeedsRequery(u, failed, n) == u \in failed /\ n < max_url_attempts

\* "fallback" in audio_path or "error" in audio_path or getsize(audio_path) < 10240
\* The path of a cache file starts with the mood: the test also holds for
\* a mood in which "error" or "fallback" occurs.
has_marker(text) == text \in {"terror"}

IsFailedDownload(f, p) ==
    p.kind = "fallback" \/ has_marker(p.mood) \/ getsize(f, p) < MinDownloadBytes

\* if is_acceptable or attempt == self.max_attempts
UseFileAlways(acc, a) == TRUE

UseFile(acc, a) == acc \/ a = max_attempts

\* except Exception: if meditation_url: failed_urls.add(meditation_url)
OnException(failed, u) == IF u # NoUrl THEN failed \cup {u} ELSE failed

\* failed_urls.add(meditation_url) after a failed download or a rejection
MarkFailedForgets(failed, u) == failed

MarkFailed(failed, u) == failed \cup {u}

\* The loop goes to its next iteration, or ends.
NextIteration ==
    IF LoopContinues(attempt)
    THEN /\ attempt' = attempt + 1
         /\ url_attempt' = 0
         /\ meditation_url' = NoUrl
         /\ pc' = "find"
    ELSE /\ pc' = "post"
         /\ UNCHANGED << attempt, url_attempt, meditation_url >>

\* if acceptable: break
LeavesLoopNever(acc) == FALSE

LeavesLoop(acc) == acc

(***************************************************************************)
(* generate_meditation, lines 73-88: arguments and locals.                 *)
(***************************************************************************)
Entry(m, l, o) ==
    /\ mood' = m
    /\ language' = l
    /\ output_path' = OutputPath(o)
    /\ fs' = IF o = "temp" THEN WriteFile(fs, OutputPath(o), EmptyFile) ELSE fs
    /\ temp_files' = << >>
    /\ final_audio_path' = NoPath
    /\ failed_urls' = {}
    /\ attempt' = 1
    /\ url_attempt' = 0
    /\ meditation_url' = NoUrl
    /\ audio_path' = NoPath
    /\ is_acceptable' = FALSE
    /\ quality_details' = NoDetails
    /\ handed' = {}
    /\ accepted_url' = NoUrl
    /\ via' = "none"
    /\ pc' = "find"

Start(m, l, o) ==
    /\ UNCHANGED not_orch_vars
    /\ pc = "idle"
    /\ Entry(m, l, o)

\* A later call of generate_meditation on the same orchestrator, after the
\* call before it returned: its locals are created anew, the files stay.
\* The call that follows one in which a URL failed is the last one followed.
StartLater(m, l, o) ==
    /\ pc = "done"
    /\ earlier_failed = {}
    /\ earlier_failed' = failed_urls
    /\ Entry(m, l, o)
    /\ UNCHANGED << apple_vars, conc_vars, load_vars, pure_vars, feedback_vars,
                    openai_vars, form_vars, sched_vars >>

(***************************************************************************)
(* Lines 96-108: one query of the retriever in the URL selection loop.     *)
(***************************************************************************)
FindUrl ==
    /\ UNCHANGED not_orch_vars
    /\ pc = "find"
    /\ ~find_meditation_raises(mood)
    /\ \E u \in find_meditation(mood, language) :
          /\ meditation_url' = u
          /\ url_attempt' = url_attempt + 1
          /\ pc' = IF NeedsRequery(u, failed_urls, url_attempt + 1)
                   THEN "find" ELSE "download"
    /\ UNCHANGED << mood, language, output_path, attempt, audio_path,
                    is_acceptable, quality_details, failed_urls, temp_files,
                    final_audio_path, fs, handed, accepted_url, via >>

\* The retriever raises: the except clause of the attempt (lines 154-159).
FindRaises ==
    /\ UNCHANGED not_orch_vars
    /\ pc = "find"
    /\ find_meditation_raises(mood)
    /\ failed_urls' = OnException(failed_urls, meditation_url)
    /\ NextIteration
    /\ UNCHANGED << mood, language, output_path, audio_path,
                    is_acceptable, quality_details, temp_files,
                    final_audio_path, fs, handed, accepted_url, via >>

(***************************************************************************)
(* Lines 110-119: download, then the failed-download test.                 *)
(***************************************************************************)
Download ==
    /\ UNCHANGED not_orch_vars
    /\ pc = "download"
    /\ handed' = handed \cup {meditation_url}
    /\ \E r \in download_audio(fs, meditation_url, mood, language) :
          IF r.raised
          THEN /\ failed_urls' = OnException(failed_urls, meditation_url)
               /\ NextIteration
               /\ UNCHANGED << audio_path, temp_files, fs >>
          ELSE /\ audio_path' = r.path
               /\ temp_files' = Append(temp_files, r.path)
               /\ fs' = r.fs
               /\ IF IsFailedDownload(r.fs, r.path)
                  THEN /\ failed_urls' = MarkFailed(failed_urls, meditation_url)
                       /\ NextIteration
                  ELSE /\ pc' = "quality"
                       /\ UNCHANGED << failed_urls, attempt, url_attempt,
                                       meditation_url >>
    /\ UNCHANGED << mood, language, output_path, is_acceptable,
                    quality_details, final_audio_path, accepted_url, via >>

(***************************************************************************)
(* Lines 121-125 and 148-152: the quality check and the decision.          *)
(***************************************************************************)
CheckQuality ==
    /\ UNCHANGED not_orch_vars
    /\ pc = "quality"
    /\ LET d == check_quality(fs, audio_path) IN
          /\ is_acceptable' = d.is_acceptable
          /\ quality_details' = d
          /\ accepted_url' = IF d.is_acceptable THEN meditation_url ELSE accepted_url
          /\ IF UseFile(d.is_acceptable, attempt)
             THEN /\ pc' = "adopt"
                  /\ UNCHANGED << failed_urls, attempt, url_attempt, meditation_url >>
             ELSE /\ failed_urls' = MarkFailed(failed_urls, meditation_url)
                  /\ NextIteration
    /\ UNCHANGED << mood, language, output_path, audio_path, temp_files,
                    final_audio_path, fs, handed, via >>

(***************************************************************************)
(* Lines 126-147: trim, copy to the output path, keep the file.            *)
(***************************************************************************)
Adopt ==
    /\ UNCHANGED not_orch_vars
    /\ pc = "adopt"
    /\ \E t \in (IF quality_details.long
                 THEN trim_audio_if_needed(fs, audio_path)
                 ELSE {[path |-> audio_path, fs |-> fs]}) :
          LET files == IF t.path # audio_path
                       THEN Append(temp_files, t.path) ELSE temp_files
          IN  /\ temp_files' = files
              /\ audio_path' = t.path
              /\ IF t.path # output_path /\ ~Writable(output_path)
                 THEN \* shutil.copy2 raises: the except clause
                      /\ fs' = t.fs
                      /\ failed_urls' = OnException(failed_urls, meditation_url)
                      /\ NextIteration
                      /\ UNCHANGED << final_audio_path, via >>
                 ELSE /\ fs' = IF t.path # output_path
                               THEN copy2(t.fs, t.path, output_path) ELSE t.fs
                      /\ final_audio_path' = output_path
                      /\ via' = IF is_acceptable THEN "accepted" ELSE "last_attempt"
                      /\ failed_urls' = failed_urls
                      /\ IF LeavesLoop(is_acceptable)
                         THEN /\ pc' = "post"
                              /\ UNCHANGED << attempt, url_attempt, meditation_url >>
                         ELSE NextIteration
    /\ UNCHANGED << mood, language, output_path, is_acceptable,
                    quality_details, handed, accepted_url >>

\* valid_files: the temporary files that exist and are larger than 10 KB.
valid_files(f, files) ==
    SelectSeq(files, LAMBDA p : Exists(f, p) /\ getsize(f, p) > MinDownloadBytes)

(***************************************************************************)
(* Lines 161-182: no file was kept; fall back on the last valid download.  *)
(***************************************************************************)
PostLoop ==
    /\ UNCHANGED not_orch_vars
    /\ pc = "post"
    /\ IF final_audio_path # NoPath
       THEN /\ pc' = "cleanup"
            /\ UNCHANGED << fs, final_audio_path, via >>
       ELSE LET valid == valid_files(fs, temp_files) IN
            IF valid = << >>
            THEN /\ pc' = "lastfb"
                 /\ UNCHANGED << fs, final_audio_path, via >>
            ELSE LET last_file == valid[Len(valid)] IN
                 IF last_file # output_path /\ ~Writable(output_path)
                 THEN \* shutil.copy2 raises outside any try block
                      /\ pc' = "raised"
                      /\ UNCHANGED << fs, final_audio_path, via >>
                 ELSE /\ fs' = IF last_file # output_path
                               THEN copy2(fs, last_file, output_path) ELSE fs
                      /\ final_audio_path' = output_path
                      /\ via' = "last_file"
                      /\ pc' = IF getsize(fs', output_path) < MinDownloadBytes
                               THEN "lastfb" ELSE "cleanup"
    /\ UNCHANGED << mood, language, output_path, attempt, url_attempt,
                    meditation_url, audio_path, is_acceptable, quality_details,
                    failed_urls, temp_files, handed, accepted_url >>

(***************************************************************************)
(* Lines 183-202: the hardcoded fallback URL, then the placeholder.        *)
(***************************************************************************)
LastFallback ==
    /\ UNCHANGED not_orch_vars
    /\ pc = "lastfb"
    /\ \E r \in download_audio(fs, fallback_url, mood, language) :
          LET usable == /\ ~r.raised
                        /\ Exists(r.fs, r.path)
                        /\ getsize(r.fs, r.path) > MinDownloadBytes
              copied == usable /\ (r.path = output_path \/ Writable(output_path))
              fs1    == IF copied /\ r.path # output_path
                        THEN copy2(r.fs, r.path, output_path) ELSE r.fs
              final1 == IF copied THEN output_path ELSE final_audio_path
              files1 == IF copied THEN Append(temp_files, r.path) ELSE temp_files
          IN  /\ audio_path' = IF r.raised THEN audio_path ELSE r.path
              /\ temp_files' = files1
              /\ IF final1 = NoPath \/ getsize(fs1, final1) < MinPlaceholderBytes
                 THEN IF Writable(output_path)
                      THEN /\ fs' = touch(fs1, output_path)
                           /\ final_audio_path' = output_path
                           /\ via' = "placeholder"
                           /\ pc' = "cleanup"
                      ELSE \* Path(output_path).touch() raises outside any try block
                           /\ fs' = fs1
                           /\ pc' = "raised"
                           /\ UNCHANGED << final_audio_path, via >>
                 ELSE /\ fs' = fs1
                      /\ final_audio_path' = final1
                      /\ via' = IF copied THEN "last_fallback" ELSE via
                      /\ pc' = "cleanup"
    /\ UNCHANGED << mood, language, output_path, attempt, url_attempt,
                    meditation_url, is_acceptable, quality_details,
                    failed_urls, handed, accepted_url >>

(***************************************************************************)
(* Lines 204-213: delete the temporary files and return.                   *)
(***************************************************************************)
Cleanup ==
    /\ UNCHANGED not_orch_vars
    /\ pc = "cleanup"
    /\ fs' = unlink(fs, Range(temp_files) \ {output_path})
    /\ pc' = "done"
    /\ UNCHANGED << mood, language, output_path, attempt, url_attempt,
                    meditation_url, audio_path, is_acceptable, quality_details,
                    failed_urls, temp_files, final_audio_path, handed,
                    accepted_url, via >>

OrchNext ==
    \/ \E r \in Requests : Start(r[1], r[2], r[3])
    \/ FindUrl
    \/ FindRaises
    \/ Download
    \/ CheckQuality
    \/ Adopt
    \/ PostLoop
    \/ LastFallback
    \/ Cleanup

\* Two calls on one orchestrator, for the same mood and language.
RunsNext ==
    \/ Start("calm", "english", "temp")
    \/ StartLater("calm", "english", "temp")
    \/ FindUrl
    \/ Download
    \/ CheckQuality
    \/ Adopt
    \/ PostLoop
    \/ LastFallback
    \/ Cleanup

(***************************************************************************)
(* AppleMusicAgent.find_meditation.                                        *)
(***************************************************************************)
NoTrack == "None"

\* Tracks the catalog search may return.
Catalog ==
    { [id |-> "A", durationInMillis |-> 600000],
      [id |-> "B", durationInMillis |-> 480000],
      [id |-> "C", durationInMillis |-> 900000],
      [id |-> "L", durationInMillis |-> 900001],
      [id |-> "D", durationInMillis |-> 600000],
      [id |-> "E", durationInMillis |-> 600000],
      [id |-> "F", durationInMillis |-> 600000] }

Track(i) == CHOOSE t \in Catalog : t.id = i

\* What one call of _search_apple_music may return: None, or a result list.
NoResults == << >>

SearchOutcomes ==
    { NoResults,
      << Track("A"), Track("L") >>,
      << Track("B") >>,
      << Track("C"), Track("A") >> }

\* Result lists of a catalog with six suitable tracks.
WideOutcomes ==
    { NoResults,
      << Track("A"), Track("B"), Track("C") >>,
      << Track("D"), Track("E"), Track("F") >> }

WideRequests == { << "calm", "english" >> }

AppleRequests == { << "calm", "english" >>, << "happy", "french" >> }

\* cache_key = f"{mood}_{language}"
cache_key(m, l) == m \o "_" \o l

Ids(tracks) == {tracks[i].id : i \in 1..Len(tracks)}

\* [track for track in tracks if track['id'] not in self.recently_used_tracks]
NotRecentlyUsedAll(tracks, recent) == tracks

NotRecentlyUsed(tracks, recent) ==
    SelectSeq(tracks, LAMBDA t : t.id \notin Range(recent))

\* if not available_tracks: available_tracks = self.search_cache[cache_key]
available_tracks_no_reset(tracks, recent) == NotRecentlyUsed(tracks, recent)

available_tracks(tracks, recent) ==
    IF NotRecentlyUsed(tracks, recent) = << >>
    THEN tracks
    ELSE NotRecentlyUsed(tracks, recent)

\* _filter_meditation_tracks: 8-15 minutes and not recently used.
filter_meditation_tracks(results, recent) ==
    SelectSeq(results, LAMBDA t : /\ 480000 <= t.durationInMillis
                                  /\ t.durationInMillis <= 900000
                                  /\ t.id \notin Range(recent))

\* recently_used_tracks.append(id); if len > 5: pop(0)
remember_pops_newest(recent, i) ==
    LET r == Append(recent, i) IN
    IF Len(r) > 5 THEN SubSeq(r, 1, 5) ELSE r

remember(recent, i) ==
    LET r == Append(recent, i) IN
    IF Len(r) > 5 THEN Tail(r) ELSE r

CachedTracks(cache, key) == IF key \in DOMAIN cache THEN cache[key] ELSE << >>

\* self.search_cache[cache_key] = all_tracks
store(cache, key, tracks) ==
    [k \in DOMAIN cache \cup {key} |-> IF k = key THEN tracks ELSE cache[k]]

AppleInit ==
    /\ search_cache = << >>
    /\ recently_used_tracks = << >>
    /\ apple_calls = 0
    /\ search_calls = 0
    /\ last_call = [key |-> "None", cached |-> << >>, recent |-> << >>,
                    result |-> NoTrack, searches |-> 0]

\* Lines 247-269: the cache holds tracks for the key.
FindCached(m, l) ==
    LET key == cache_key(m, l)
        cached == CachedTracks(search_cache, key)
        avail == available_tracks(cached, recently_used_tracks)
    IN  /\ apple_calls < MaxAppleCalls
        /\ cached # << >>
        /\ avail # << >>
        /\ \E n \in 1..Len(avail) :
              /\ recently_used_tracks' = remember(recently_used_tracks, avail[n].id)
              /\ last_call' = [key |-> key, cached |-> cached,
                               recent |-> recently_used_tracks,
                               result |-> avail[n].id, searches |-> 0]
        /\ apple_calls' = apple_calls + 1
        /\ UNCHANGED << search_cache, search_calls >>
        /\ UNCHANGED not_apple_vars

\* Lines 271-314: no cached track to return, three catalog searches, each
\* answered by one of the given outcomes.
FindSearchFrom(m, l, outcomes) ==
    LET key == cache_key(m, l)
        cached == CachedTracks(search_cache, key)
        avail == available_tracks(cached, recently_used_tracks)
    IN  /\ apple_calls < MaxAppleCalls
        /\ ~(cached # << >> /\ avail # << >>)
        /\ \E r1 \in outcomes, r2 \in outcomes, r3 \in outcomes :
              LET all_tracks ==
                      filter_meditation_tracks(r1, recently_used_tracks)
                      \o filter_meditation_tracks(r2, recently_used_tracks)
                      \o filter_meditation_tracks(r3, recently_used_tracks)
              IN  IF all_tracks # << >>
                  THEN /\ search_cache' = store(search_cache, key, all_tracks)
                       /\ \E n \in 1..Len(all_tracks) :
                             /\ recently_used_tracks' =
                                    remember(recently_used_tracks, all_tracks[n].id)
                             /\ last_call' = [key |-> key, cached |-> cached,
                                              recent |-> recently_used_tracks,
                                              result |-> all_tracks[n].id,
                                              searches |-> 3]
                  ELSE /\ last_call' = [key |-> key, cached |-> cached,
                                        recent |-> recently_used_tracks,
                                        result |-> NoTrack, searches |-> 3]
                       /\ UNCHANGED << search_cache, recently_used_tracks >>
        /\ apple_calls' = apple_calls + 1
        /\ search_calls' = search_calls + 3
        /\ UNCHANGED not_apple_vars

FindSearch(m, l) == FindSearchFrom(m, l, SearchOutcomes)

AppleNext ==
    \/ \E r \in AppleRequests : FindCached(r[1], r[2])
    \/ \E r \in AppleRequests : FindSearch(r[1], r[2])

\* find_meditation against a catalog with six suitable tracks.
FindSearchWide(m, l) == FindSearchFrom(m, l, WideOutcomes)

WideNext ==
    \/ \E r \in WideRequests : FindCached(r[1], r[2])
    \/ \E r \in WideRequests : FindSearchWide(r[1], r[2])

(***************************************************************************)
(* Concurrent calls of find_meditation on one agent (asyncio tasks of one  *)
(* process): a task runs until its next await.                             *)
(***************************************************************************)
Tasks == 1..MaxTasks

IdleCall == [pc |-> "idle", key |-> "None", all_tracks |-> << >>, queries |-> 0,
             stored |-> << >>]

ConcInit == calls = [t \in Tasks |-> IdleCall]

\* Lines 245-269: the call finds cached tracks and returns without an await.
ConcHit(t, m, l) ==
    LET key == cache_key(m, l)
        cached == CachedTracks(search_cache, key)
        avail == available_tracks(cached, recently_used_tracks)
    IN  /\ calls[t].pc = "idle"
        /\ cached # << >>
        /\ avail # << >>
        /\ \E n \in 1..Len(avail) :
              /\ recently_used_tracks' = remember(recently_used_tracks, avail[n].id)
              /\ last_call' = [key |-> key, cached |-> cached,
                               recent |-> recently_used_tracks,
                               result |-> avail[n].id, searches |-> 0]
        /\ apple_calls' = apple_calls + 1
        /\ calls' = [calls EXCEPT ![t].pc = "done", ![t].key = key]
        /\ UNCHANGED << search_cache, search_calls, not_agent_vars >>

\* Lines 245-288: the call misses the cache and reaches its first
\* await self._search_apple_music(query).
ConcMiss(t, m, l) ==
    LET key == cache_key(m, l)
        cached == CachedTracks(search_cache, key)
        avail == available_tracks(cached, recently_used_tracks)
    IN  /\ calls[t].pc = "idle"
        /\ ~(cached # << >> /\ avail # << >>)
        /\ apple_calls' = apple_calls + 1
        /\ calls' = [calls EXCEPT ![t].pc = "searching", ![t].key = key]
        /\ UNCHANGED << search_cache, recently_used_tracks, search_calls,
                        last_call, not_agent_vars >>

\* Lines 288-295: a search returns, its results are filtered against
\* recently_used_tracks as it is now, and the call sleeps.
ConcSearch(t) ==
    /\ calls[t].pc = "searching"
    /\ calls[t].queries < 3
    /\ \E r \in SearchOutcomes :
          calls' = [calls EXCEPT
                       ![t].all_tracks =
                           @ \o filter_meditation_tracks(r, recently_used_tracks),
                       ![t].queries = @ + 1]
    /\ search_calls' = search_calls + 1
    /\ UNCHANGED << search_cache, recently_used_tracks, apple_calls, last_call,
                    not_agent_vars >>

\* Lines 297-314: after the last sleep the call stores its tracks, picks
\* one and returns.
ConcStore(t) ==
    LET c == calls[t] IN
    /\ c.pc = "searching"
    /\ c.queries = 3
    /\ IF c.all_tracks # << >>
       THEN /\ search_cache' = store(search_cache, c.key, c.all_tracks)
            /\ \E n \in 1..Len(c.all_tracks) :
                  /\ recently_used_tracks' =
                         remember(recently_used_tracks, c.all_tracks[n].id)
                  /\ last_call' = [key |-> c.key,
                                   cached |-> CachedTracks(search_cache, c.key),
                                   recent |-> recently_used_tracks,
                                   result |-> c.all_tracks[n].id,
                                   searches |-> 3]
            /\ calls' = [calls EXCEPT ![t].pc = "done",
                                      ![t].stored = c.all_tracks]
       ELSE /\ last_call' = [key |-> c.key,
                             cached |-> CachedTracks(search_cache, c.key),
                             recent |-> recently_used_tracks,
                             result |-> NoTrack, searches |-> 3]
            /\ calls' = [calls EXCEPT ![t].pc = "done"]
            /\ UNCHANGED << search_cache, recently_used_tracks >>
    /\ UNCHANGED << apple_calls, search_calls, not_agent_vars >>

ConcNext ==
    \/ \E t \in Tasks, r \in AppleRequests : ConcHit(t, r[1], r[2])
    \/ \E t \in Tasks, r \in AppleRequests : ConcMiss(t, r[1], r[2])
    \/ \E t \in Tasks : ConcSearch(t)
    \/ \E t \in Tasks : ConcStore(t)

(***************************************************************************)
(* AppleMusicAgent.__init__ and _load_search_cache, then find_meditation   *)
(* on the agent built.                                                     *)
(***************************************************************************)
AbsentFile == [state |-> "absent", data |-> << >>]

\* The file exists and json.load raises on it (truncated or not JSON).
UnparseableFile == [state |-> "unparseable", data |-> << >>]

\* A cache written by _save_search_cache.
SavedFile ==
    [state |-> "json", data |-> [calm_english |-> << Track("A"), Track("B") >>]]

\* JSON that json.load accepts but whose track has no 'id'.
NoIdFile ==
    [state |-> "json", data |-> [calm_english |-> << [durationInMillis |-> 600000] >>]]

CacheFiles == {AbsentFile, UnparseableFile, SavedFile, NoIdFile}

\* Persisted data that is not a cache _save_search_cache wrote.
MalformedFiles == {UnparseableFile, NoIdFile}

\* _load_search_cache: the parsed content, or {} when the file is absent or
\* json.load raises.
load_search_cache(file) == IF file.state = "json" THEN file.data ELSE << >>

\* track['id'] raises KeyError on a cached track without that key.
HasIds(tracks) == \A i \in 1..Len(tracks) : "id" \in DOMAIN tracks[i]

\* What the searches of a call answer after a load.
LoadOutcomes == { NoResults, << Track("C") >> }

(***************************************************************************)
(* FeedbackCollectorAgent: save_feedback, _update_preference_data and      *)
(* get_personalized_recommendations.  A dict of preference_data is the     *)
(* list of its items in insertion order.                                   *)
(***************************************************************************)
Absent == "None"

\* "duration_ms" not in track_metadata
NoDuration == -1

\* track_metadata of the sessions rated.
Metadatas ==
    { [mood |-> "calm", artist |-> "X", duration_ms |-> 570000],
      [mood |-> "focused", artist |-> "Y", duration_ms |-> 600000],
      [mood |-> "relaxed", artist |-> "X", duration_ms |-> NoDuration],
      [mood |-> "energized", artist |-> Absent, duration_ms |-> 630000],
      [mood |-> Absent, artist |-> "Z", duration_ms |-> 660000] }

\* feedback_responses.get("rating"): numbers as text, text that int() does
\* not accept, or no rating.
Ratings == {"5", "1", "great", Absent}

rating_is_number(r) == r \in {"5", "3", "1"}

\* int(rating)
int(r) == CASE r = "5" -> 5 [] r = "3" -> 3 [] r = "1" -> 1

\* round(x / 60000): Python rounds a half to the even neighbour.
round_minutes(ms) ==
    LET q == ms \div 60000
        r == ms % 60000
    IN  IF 2 * r < 60000 THEN q
        ELSE IF 2 * r > 60000 THEN q + 1
        ELSE IF q % 2 = 0 THEN q ELSE q + 1

\* duration_bucket = f"{duration_min}-{duration_min+1}min"
duration_bucket(ms) ==
    ToString(round_minutes(ms)) \o "-" \o ToString(round_minutes(ms) + 1) \o "min"

Names(items) == {items[i].name : i \in 1..Len(items)}

\* One block of _update_preference_data: the entry of the name is created
\* at the end if absent, then counted.
bump(items, name, is_positive, is_negative) ==
    LET with_entry ==
            IF name \in Names(items) THEN items
            ELSE Append(items, [name |-> name, count |-> 0, positive |-> 0,
                                negative |-> 0])
    IN  [i \in 1..Len(with_entry) |->
            IF with_entry[i].name = name
            THEN [with_entry[i] EXCEPT
                     !.count = @ + 1,
                     !.positive = IF is_positive THEN @ + 1 ELSE @,
                     !.negative = IF is_negative THEN @ + 1 ELSE @]
            ELSE with_entry[i]]

\* _update_preference_data(feedback_responses, track_metadata)
update_preference_data(pd, rating, md) ==
    IF rating = Absent \/ ~rating_is_number(rating) THEN pd
    ELSE LET is_positive == int(rating) >= 4
             is_negative == int(rating) <= 2
         IN  [ preferred_moods |->
                   IF md.mood # Absent
                   THEN bump(pd.preferred_moods, md.mood, is_positive, is_negative)
                   ELSE pd.preferred_moods,
               preferred_artists |->
                   IF md.artist # Absent
                   THEN bump(pd.preferred_artists, md.artist, is_positive, is_negative)
                   ELSE pd.preferred_artists,
               preferred_durations |->
                   IF md.duration_ms # NoDuration
                   THEN bump(pd.preferred_durations, duration_bucket(md.duration_ms),
                             is_positive, is_negative)
                   ELSE pd.preferred_durations ]

\* The sort key: key=lambda x: x[1]["positive"], reverse=True.
goes_before_by_count(x, y) ==
    x.positive > y.positive \/ (x.positive = y.positive /\ x.count > y.count)

goes_before(x, y) == x.positive > y.positive

\* list.sort is stable, with reverse=True too: an item is placed after the
\* items already placed that it does not go before.
RECURSIVE insert_sorted(_, _)
insert_sorted(sorted, x) ==
    IF sorted = << >> THEN << x >>
    ELSE IF goes_before(x, Head(sorted))
         THEN << x >> \o sorted
         ELSE << Head(sorted) >> \o insert_sorted(Tail(sorted), x)

RECURSIVE sort_items(_)
sort_items(items) ==
    IF items = << >> THEN << >>
    ELSE insert_sorted(sort_items(SubSeq(items, 1, Len(items) - 1)),
                       items[Len(items)])

\* items[:3]
first_three(items) == SubSeq(items, 1, Min(3, Len(items)))

\* [name for name, data in items[:3]] after the sort
top_names(items) ==
    LET top == first_three(sort_items(items)) IN
    [i \in 1..Len(top) |-> top[i].name]

\* get_personalized_recommendations()
get_personalized_recommendations(pd) ==
    [ preferred_moods |-> top_names(pd.preferred_moods),
      preferred_artists |-> top_names(pd.preferred_artists),
      preferred_durations |-> top_names(pd.preferred_durations) ]

EmptyPreferences ==
    [preferred_moods |-> << >>, preferred_artists |-> << >>,
     preferred_durations |-> << >>]

FeedbackInit ==
    /\ feedback_data = [entries |-> 0, preference_data |-> EmptyPreferences]
    /\ recommendations = [done |-> FALSE]

\* save_feedback(feedback_responses, track_metadata)
SaveFeedback(rating, md) ==
    /\ feedback_data.entries < MaxFeedback
    /\ feedback_data' =
           [ entries |-> feedback_data.entries + 1,
             preference_data |->
                 update_preference_data(feedback_data.preference_data, rating, md) ]
    /\ UNCHANGED << recommendations, not_feedback_vars >>

GetRecommendations ==
    /\ recommendations' =
           [ done |-> TRUE,
             of |-> feedback_data.preference_data,
             value |-> get_personalized_recommendations(feedback_data.preference_data) ]
    /\ UNCHANGED << feedback_data, not_feedback_vars >>

FeedbackNext ==
    \/ \E r \in Ratings, md \in Metadatas : SaveFeedback(r, md)
    \/ GetRecommendations

(***************************************************************************)
(* OpenAIMeditationAgent.find_meditation: up to max_validation_attempts    *)
(* rounds of one model call, the extraction of a URL from its answer and   *)
(* the validation of that URL, then a URL of fallback_videos.              *)
(***************************************************************************)
max_validation_attempts == 3

fallback_videos ==
    << "https://www.youtube.com/watch?v=ZToicYcHIOU",
       "https://www.youtube.com/watch?v=O-6f5wQXSu8",
       "https://www.youtube.com/watch?v=86m4RC_ADEY",
       "https://www.youtube.com/watch?v=1ZYbU82GVz4" >>

\* What the exchange with the model API may come to: no API key, a transport
\* error, a status other than 200, a 200 whose JSON lacks choices, or a 200
\* with an answer text.
FakeResponse == "{\"url\": \"https://www.youtube.com/watch?v=ZToicYcHIOU\"}"

AnswerTexts ==
    { "{\"url\": \"https://www.youtube.com/watch?v=abc\"}",
      "{url: 'https://youtu.be/xyz'}",
      "{\"url\": \"https://notyoutube.com/watch?v=abc\"}",
      "{\"url\": \"https://www.youtube.com/playlist\"}",
      "{\"url\": null}",
      "{\"link\": \"https://example.org/a.mp3\"}",
      "5",
      "Sorry, I cannot browse." }

ApiExchanges ==
    { [kind |-> "no_key"], [kind |-> "error"], [kind |-> "status_500"],
      [kind |-> "no_choices"] }
    \cup { [kind |-> "ok", text |-> t] : t \in AnswerTexts }

\* _call_openai: the answer text, or the fake response on any failure.
call_openai(x) == IF x.kind = "ok" THEN x.text ELSE FakeResponse

\* _extract_youtube_url: the URL, "" when none is found, or an exception
\* other than JSONDecodeError out of the standard JSON parsing.
extract_youtube_url(text) ==
    CASE text = FakeResponse ->
             [raised |-> FALSE, url |-> "https://www.youtube.com/watch?v=ZToicYcHIOU"]
      [] text = "{\"url\": \"https://www.youtube.com/watch?v=abc\"}" ->
             [raised |-> FALSE, url |-> "https://www.youtube.com/watch?v=abc"]
      [] text = "{url: 'https://youtu.be/xyz'}" ->
             [raised |-> FALSE, url |-> "https://youtu.be/xyz"]
      [] text = "{\"url\": \"https://notyoutube.com/watch?v=abc\"}" ->
             [raised |-> FALSE, url |-> "https://notyoutube.com/watch?v=abc"]
      [] text = "{\"url\": \"https://www.youtube.com/playlist\"}" ->
             [raised |-> FALSE, url |-> "https://www.youtube.com/playlist"]
      [] text \in {"{\"url\": null}", "5"} ->
             [raised |-> TRUE, url |-> ""]
      [] OTHER ->
             [raised |-> FALSE, url |-> ""]

\* "youtube.com/watch?v=" in youtube_url or "youtu.be/" in youtube_url
has_video_format(url) ==
    url \in { "https://www.youtube.com/watch?v=ZToicYcHIOU",
              "https://www.youtube.com/watch?v=abc",
              "https://notyoutube.com/watch?v=abc",
              "https://youtu.be/xyz" }

\* What the HEAD request and pytube may come to.
HeadOutcomes == {"error", "status_404", "status_200"}

PytubeOutcomes == {"not_installed", "available", "unavailable", "crashed"}

\* _validate_youtube_url
validate_youtube_url(url, head, pytube) ==
    /\ url # ""
    /\ has_video_format(url)
    /\ head = "status_200"
    /\ pytube # "unavailable"

\* while attempts < max_attempts
attempts_left_off_by_one(attempts) == attempts <= max_validation_attempts

attempts_left(attempts) == attempts < max_validation_attempts

NoCall ==
    [ pc |-> "idle", attempts |-> 0, model_calls |-> 0, youtube_url |-> "",
      rejected |-> << >>, validated |-> {}, result |-> "" ]

OpenAIInit == openai_call = NoCall

(***************************************************************************)
(* FeedbackCollectorAgent.should_show_feedback_form, and the entries that  *)
(* save_feedback appends.  The time is counted in units of 12 hours.       *)
(***************************************************************************)
MaxClock == 3

MaxEntries == 2

UnitsPerDay == 2

Users == {"u1", "u2"}

\* feedback_entry of save_feedback: timestamp, track_id, track_metadata and
\* responses; it has no "user_id" key.  by is history: the user whose
\* feedback it is.
feedback_entry(t, u) == [timestamp |-> t, user_id |-> Absent, by |-> u]

\* The newest entry with entry.get("user_id") == user_id, or 0.
RECURSIVE last_entry_of(_, _)
last_entry_of(entries, user_id) ==
    IF entries = << >> THEN 0
    ELSE IF entries[Len(entries)].user_id = user_id THEN Len(entries)
    ELSE last_entry_of(SubSeq(entries, 1, Len(entries) - 1), user_id)

\* time_diff.days >= 1
days_at_least_one(t, clock) == (clock - t) \div UnitsPerDay >= 1

should_show_feedback_form(entries, user_id, clock) ==
    IF last_entry_of(entries, user_id) = 0 THEN TRUE
    ELSE days_at_least_one(entries[last_entry_of(entries, user_id)].timestamp, clock)

FormInit ==
    /\ feedback_entries = << >>
    /\ now = 0
    /\ form_asked = [done |-> FALSE]
    /\ last_save = [done |-> FALSE]

not_form_vars ==
    << orch_vars, apple_vars, conc_vars, load_vars, pure_vars, feedback_vars,
       openai_vars, runs_vars, sched_vars >>

\* save_feedback for the feedback of user u: the entry is appended.
SaveEntry(u) ==
    /\ Len(feedback_entries) < MaxEntries
    /\ feedback_entries' = Append(feedback_entries, feedback_entry(now, u))
    /\ UNCHANGED << now, form_asked, last_save, not_form_vars >>

\* Twelve hours pass.
Tick ==
    /\ now < MaxClock
    /\ now' = now + 1
    /\ UNCHANGED << feedback_entries, form_asked, last_save, not_form_vars >>

AskForm(u) ==
    /\ form_asked' = [done |-> TRUE, user_id |-> u, at |-> now,
                      entries |-> feedback_entries,
                      value |-> should_show_feedback_form(feedback_entries, u, now)]
    /\ UNCHANGED << feedback_entries, now, last_save, not_form_vars >>

FormNext ==
    \/ \E u \in Users : SaveEntry(u)
    \/ Tick
    \/ \E u \in Users : AskForm(u)

(***************************************************************************)
(* save_feedback with the outcome of _save_feedback_data: the entry is     *)
(* appended and the preference counters updated, then the file is written. *)
(***************************************************************************)
MaxSaves == 2

\* _save_feedback_data(): True, or False when open or json.dump raises.
WriteOutcomes == BOOLEAN

SaveFeedbackToFile(rating, md, written) ==
    /\ feedback_data.entries < MaxSaves
    /\ feedback_data' =
           [ entries |-> feedback_data.entries + 1,
             preference_data |->
                 update_preference_data(feedback_data.preference_data, rating, md) ]
    /\ last_save' = [done |-> TRUE, before |-> feedback_data, value |-> written]
    /\ UNCHANGED << recommendations, feedback_entries, now, form_asked,
                    orch_vars, apple_vars, conc_vars, load_vars, pure_vars,
                    openai_vars, runs_vars, sched_vars >>

SaveNext ==
    \E r \in Ratings, md \in Metadatas, written \in WriteOutcomes :
        SaveFeedbackToFile(r, md, written)

(***************************************************************************)
(* app.utils.scheduler: init_scheduler and start_scheduler start a thread  *)
(* that runs run_scheduler_thread.  The steps of the threads and of the    *)
(* callers interleave: the interpreter switches threads between the test   *)
(* of a variable and the assignment that follows it.                       *)
(***************************************************************************)
MaxThreads == 3

MaxCallers == 2

Threads == 1..MaxThreads

Callers == 1..MaxCallers

\* scheduler_thread = None
NoThread == 0

\* Thread.is_alive(): started and run_scheduler_thread has not returned.
is_alive(t) == thread_pc[t] \in {"test", "set", "loop"}

SchedInit ==
    /\ is_running = FALSE
    /\ scheduler_thread = NoThread
    /\ thread_pc = [t \in Threads |-> "new"]
    /\ init_pc = [c \in Callers |-> "idle"]

not_sched_vars ==
    << orch_vars, apple_vars, conc_vars, load_vars, pure_vars, feedback_vars,
       openai_vars, runs_vars, form_vars >>

\* start_scheduler(), called directly: Thread(...).start()
StartScheduler(t) ==
    /\ thread_pc[t] = "new"
    /\ thread_pc' = [thread_pc EXCEPT ![t] = "test"]
    /\ UNCHANGED << is_running, scheduler_thread, init_pc, not_sched_vars >>

\* init_scheduler(), the test of line 85.
InitSchedulerTest(c) ==
    /\ init_pc[c] # "starting"
    /\ init_pc' = [init_pc EXCEPT ![c] =
                       IF scheduler_thread = NoThread \/ ~is_alive(scheduler_thread)
                       THEN "starting" ELSE "False"]
    /\ init_pc'[c] # init_pc[c]
    /\ UNCHANGED << is_running, scheduler_thread, thread_pc, not_sched_vars >>

\* init_scheduler(), line 86: scheduler_thread = start_scheduler()
InitSchedulerStart(c, t) ==
    /\ init_pc[c] = "starting"
    /\ thread_pc[t] = "new"
    /\ thread_pc' = [thread_pc EXCEPT ![t] = "test"]
    /\ scheduler_thread' = t
    /\ init_pc' = [init_pc EXCEPT ![c] = "True"]
    /\ UNCHANGED << is_running, not_sched_vars >>

\* run_scheduler_thread, lines 44-46: if is_running: return
TestRunning(t) ==
    /\ thread_pc[t] = "test"
    /\ thread_pc' = [thread_pc EXCEPT ![t] = IF is_running THEN "returned" ELSE "set"]
    /\ UNCHANGED << is_running, scheduler_thread, init_pc, not_sched_vars >>

\* run_scheduler_thread, lines 49-60: is_running = True, then the loop.
SetRunning(t) ==
    /\ thread_pc[t] = "set"
    /\ is_running' = TRUE
    /\ thread_pc' = [thread_pc EXCEPT ![t] = "loop"]
    /\ UNCHANGED << scheduler_thread, init_pc, not_sched_vars >>

\* run_scheduler_thread, lines 64-67: a job raises in run_pending; the
\* loop ends and the finally clause clears the flag.
LoopRaises(t) ==
    /\ thread_pc[t] = "loop"
    /\ is_running' = FALSE
    /\ thread_pc' = [thread_pc EXCEPT ![t] = "returned"]
    /\ UNCHANGED << scheduler_thread, init_pc, not_sched_vars >>

SchedNext ==
    \/ \E t \in Threads : StartScheduler(t)
    \/ \E c \in Callers : InitSchedulerTest(c)
    \/ \E c \in Callers, t \in Threads : InitSchedulerStart(c, t)
    \/ \E t \in Threads : TestRunning(t)
    \/ \E t \in Threads : SetRunning(t)
    \/ \E t \in Threads : LoopRaises(t)

LateInit ==
    /\ OpenAIInit
    /\ earlier_failed = {}
    /\ FormInit
    /\ SchedInit

not_openai_vars ==
    << orch_vars, apple_vars, conc_vars, load_vars, pure_vars, feedback_vars,
       runs_vars, form_vars, sched_vars >>

\* find_meditation(mood, language): the prompt is built, attempts = 0.
OpenAIStart ==
    /\ openai_call.pc \in {"idle", "returned"}
    /\ openai_call' = [NoCall EXCEPT !.pc = "loop"]
    /\ UNCHANGED not_openai_vars

\* One round up to the validation: attempts += 1, the model call, the
\* extraction; without a URL, or on an exception, the round ends here.
OpenAIAsk(x) ==
    /\ openai_call.pc = "loop"
    /\ attempts_left(openai_call.attempts)
    /\ LET e == extract_youtube_url(call_openai(x)) IN
       openai_call' =
           [ openai_call EXCEPT
               !.attempts = @ + 1,
               !.model_calls = @ + 1,
               !.youtube_url = IF e.raised THEN "" ELSE e.url,
               !.pc = IF e.raised \/ e.url = "" THEN "loop" ELSE "validate" ]
    /\ UNCHANGED not_openai_vars

\* The validation of the URL of this round: it is returned when valid, and
\* added to the prompt as unavailable otherwise.
OpenAIValidate(head, pytube) ==
    /\ openai_call.pc = "validate"
    /\ IF validate_youtube_url(openai_call.youtube_url, head, pytube)
       THEN openai_call' =
                [ openai_call EXCEPT
                    !.validated = @ \cup {openai_call.youtube_url},
                    !.result = openai_call.youtube_url,
                    !.pc = "returned" ]
       ELSE openai_call' =
                [ openai_call EXCEPT
                    !.rejected = Append(@, openai_call.youtube_url),
                    !.pc = "loop" ]
    /\ UNCHANGED not_openai_vars

\* All attempts used: random.choice(self.fallback_videos).
OpenAIFallback ==
    /\ openai_call.pc = "loop"
    /\ ~attempts_left(openai_call.attempts)
    /\ \E i \in DOMAIN fallback_videos :
           openai_call' = [ openai_call EXCEPT !.result = fallback_videos[i],
                                               !.pc = "returned" ]
    /\ UNCHANGED not_openai_vars

OpenAIStep ==
    \/ \E x \in ApiExchanges : OpenAIAsk(x)
    \/ \E h \in HeadOutcomes, y \in PytubeOutcomes : OpenAIValidate(h, y)
    \/ OpenAIFallback

OpenAINext == OpenAIStart \/ OpenAIStep

PureInit ==
    /\ args = "None"
    /\ returned = [done |-> FALSE]

LoadInit ==
    /\ OrchInit
    /\ AppleInit
    /\ ConcInit
    /\ FeedbackInit
    /\ LateInit
    /\ PureInit
    /\ cache_file \in CacheFiles
    /\ agent_state = "unbuilt"

\* AppleMusicAgent(): self.search_cache = self._load_search_cache()
Construct ==
    /\ agent_state = "unbuilt"
    /\ search_cache' = load_search_cache(cache_file)
    /\ agent_state' = "ready"
    /\ UNCHANGED << recently_used_tracks, apple_calls, search_calls, last_call,
                    cache_file, orch_vars, conc_vars,
                    pure_vars, feedback_vars, late_vars >>

\* find_meditation on the agent built: the cache path, the search path, or
\* KeyError out of the list comprehension of line 252.
LoadFindCached(m, l) ==
    /\ agent_state = "ready"
    /\ HasIds(CachedTracks(search_cache, cache_key(m, l)))
    /\ FindCached(m, l)

LoadFindSearch(m, l) ==
    /\ agent_state = "ready"
    /\ HasIds(CachedTracks(search_cache, cache_key(m, l)))
    /\ FindSearchFrom(m, l, LoadOutcomes)

LoadFindRaises(m, l) ==
    /\ agent_state = "ready"
    /\ ~HasIds(CachedTracks(search_cache, cache_key(m, l)))
    /\ apple_calls < MaxAppleCalls
    /\ apple_calls' = apple_calls + 1
    /\ agent_state' = "raised"
    /\ UNCHANGED << search_cache, recently_used_tracks, search_calls, last_call,
                    cache_file, orch_vars, conc_vars,
                    pure_vars, feedback_vars, late_vars >>

LoadNext ==
    \/ Construct
    \/ \E r \in AppleRequests : LoadFindCached(r[1], r[2])
    \/ \E r \in AppleRequests : LoadFindSearch(r[1], r[2])
    \/ \E r \in AppleRequests : LoadFindRaises(r[1], r[2])

(***************************************************************************)
(* AudioRetrieverAgent._is_duration_suitable and                           *)
(* _is_duration_suitable_text.  A duration text is given by the fields its *)
(* digits spell: "MM:SS" (mm, ss), "HH:MM:SS" (hh, mm, ss) or "N min",     *)
(* "N minutes" (n).                                                        *)
(***************************************************************************)
SecondsTried == {0, 1, 30, 59}

Durations ==
    [form : {"MM:SS"}, hh : {0}, mm : 0..MaxMinutes, ss : SecondsTried]
    \cup [form : {"HH:MM:SS"}, hh : 0..MaxHours, mm : {0, 7, 8, 10, 15, 16},
          ss : SecondsTried]
    \cup [form : {"N min", "N minutes"}, hh : {0}, mm : 0..MaxMinutes, ss : {0}]

\* duration_text.strip().split(':'), each part as the number it spells; the
\* one part of "N min" is not a number.
parts(d) ==
    CASE d.form = "MM:SS" -> << d.mm, d.ss >>
      [] d.form = "HH:MM:SS" -> << d.hh, d.mm, d.ss >>
      [] OTHER -> << -1 >>

\* 8 <= minutes <= 15: the seconds part is not read.
minutes_in_range(minutes, seconds) == 8 <= minutes /\ minutes <= 15

\* _is_duration_suitable(duration_text)
is_duration_suitable(d) ==
    LET p == parts(d) IN
    IF Len(p) = 2 THEN minutes_in_range(p[1], p[2])
    ELSE IF Len(p) = 3
         THEN IF p[1] > 0 THEN FALSE ELSE minutes_in_range(p[2], p[3])
         \* re.search(r'(\d+)\s*min', ...) on "N min", "N minutes"
         ELSE minutes_in_range(d.mm, 0)

\* re.findall(r'(\d+):(\d+)(?::(\d+))?', text): every match is a 3-tuple,
\* its third group empty for "MM:SS".
colon_match(d) ==
    CASE d.form = "MM:SS" -> << d.mm, d.ss, -1 >>
      [] d.form = "HH:MM:SS" -> << d.hh, d.mm, d.ss >>
      [] OTHER -> << >>

\* _is_duration_suitable_text(text)
is_duration_suitable_text(d) ==
    IF d.form \in {"N min", "N minutes"}
    THEN 8 <= d.mm /\ d.mm <= 15
    ELSE LET match == colon_match(d) IN
         IF Len(match) = 2
         THEN 8 <= match[1] /\ match[1] <= 15
         ELSE 8 <= match[1] * 60 + match[2] /\ match[1] * 60 + match[2] <= 15

DurInit ==
    /\ OrchInit
    /\ AppleInit
    /\ ConcInit
    /\ FeedbackInit
    /\ LateInit
    /\ cache_file = AbsentFile
    /\ agent_state = "ready"
    /\ args \in Durations
    /\ returned = [done |-> FALSE]

CheckDuration ==
    /\ ~returned.done
    /\ returned' = [done |-> TRUE,
                    value |-> [suitable |-> is_duration_suitable(args),
                               suitable_text |-> is_duration_suitable_text(args)]]
    /\ UNCHANGED << args, not_pure_vars >>

DurNext == CheckDuration

(***************************************************************************)
(* AudioQualityCheckerAgent.check_quality on one artifact, given by what   *)
(* the file system, pydub and mediainfo report on it.                      *)
(***************************************************************************)
min_duration_ms == 8 * 60 * 1000
max_duration_ms == 12 * 60 * 1000
fallback_min_duration_ms == 5 * 60 * 1000
fallback_max_duration_ms == 15 * 60 * 1000
min_bitrate_kbps == 64
min_sample_rate_hz == 22050
max_silence_intro_ms == 15 * 1000
max_silence_outro_ms == 5 * 1000
TooQuietDbfs == -45

Artifacts ==
    [ exists : BOOLEAN,
      size : {0, 1023, 1024, 41050},
      loadable : BOOLEAN,
      duration_ms : {299999, 300000, 420000, 479999, 480000, 720000, 720001,
                     900000, 900001},
      bit_rate : {63999, 64000, 128000},
      frame_rate : {22049, 22050, 44100},
      dBFS : {-46, -45, -20},
      intro_silence_ms : {0, 15000, 16000},
      outro_silence_ms : {0, 5000, 6000} ]

NoError == "None"

\* Lines 60-69: the checks made before the file is loaded.
file_check_skipped(a) == NoError

file_check(a) ==
    IF ~a.exists THEN "File does not exist"
    ELSE IF a.size < MinAudioBytes THEN "File too small"
    ELSE NoError

\* bitrate_kbps = int(int(bitrate_raw) / 1000)
bitrate_kbps(a) == a.bit_rate \div 1000

\* Lines 112-120: the duration issues.
duration_issues(a) ==
    IF a.duration_ms < min_duration_ms \/ a.duration_ms > max_duration_ms
    THEN << "outside ideal range" >>
         \o ( IF \/ a.duration_ms < fallback_min_duration_ms
                 \/ a.duration_ms > fallback_max_duration_ms
              THEN << "outside acceptable range" >>
              ELSE << >> )
    ELSE << >>

\* Lines 110-162: the issues list, in the order the checks append to it.
collect_issues(a) ==
    duration_issues(a)
    \o ( IF bitrate_kbps(a) < min_bitrate_kbps THEN << "Bitrate too low" >> ELSE << >> )
    \o ( IF a.frame_rate < min_sample_rate_hz THEN << "Sample rate too low" >> ELSE << >> )
    \o ( IF a.dBFS < TooQuietDbfs THEN << "Audio may be too quiet" >> ELSE << >> )
    \o ( IF a.intro_silence_ms > max_silence_intro_ms
         THEN << "Long silent intro" >> ELSE << >> )
    \o ( IF a.outro_silence_ms > max_silence_outro_ms
         THEN << "Long silent outro" >> ELSE << >> )

\* Lines 166-174: no issue, or one minor issue.
decide_without_soft_pass(issues) == Len(issues) = 0

decide_any_single_issue(issues) == Len(issues) <= 1

decide(issues) ==
    \/ Len(issues) = 0
    \/ /\ Len(issues) = 1
       /\ issues[1] \in {"outside ideal range", "Long silent intro",
                          "Long silent outro"}

\* check_quality(audio_path): the verdict, the error or the issues, and
\* whether AudioSegment.from_file was called.
check_quality_of(a) ==
    IF file_check(a) # NoError
    THEN [is_acceptable |-> FALSE, error |-> file_check(a), issues |-> << >>,
          loaded |-> FALSE]
    ELSE IF ~a.loadable
    THEN [is_acceptable |-> FALSE, error |-> "Failed to analyze audio",
          issues |-> << >>, loaded |-> TRUE]
    ELSE [is_acceptable |-> decide(collect_issues(a)), error |-> NoError,
          issues |-> collect_issues(a), loaded |-> TRUE]

QualInit ==
    /\ OrchInit
    /\ AppleInit
    /\ ConcInit
    /\ FeedbackInit
    /\ LateInit
    /\ cache_file = AbsentFile
    /\ agent_state = "ready"
    /\ args \in Artifacts
    /\ returned = [done |-> FALSE]

CheckArtifact ==
    /\ ~returned.done
    /\ returned' = [done |-> TRUE, value |-> check_quality_of(args)]
    /\ UNCHANGED << args, not_pure_vars >>

QualNext == CheckArtifact

(***************************************************************************)
(* Requests that spell one mood and language in several ways, given to     *)
(* AudioRetrieverAgent.find_meditation and AppleMusicAgent.find_meditation.*)
(***************************************************************************)
SpelledRequests ==
    { << "calm", "english" >>,
      << "Calm", "english" >>,
      << " calm ", "English" >> }

\* AudioRetrieverAgent.find_meditation(mood, language): the pool it draws from.
RetrieverLookup(m, l) ==
    /\ args' = << m, l >>
    /\ returned' = [done |-> TRUE, value |-> find_meditation(m, l)]
    /\ UNCHANGED not_pure_vars

SpelledNext ==
    \/ \E r \in SpelledRequests : RetrieverLookup(r[1], r[2])
    \/ \E r \in SpelledRequests : FindCached(r[1], r[2])
    \/ \E r \in SpelledRequests : FindSearchFrom(r[1], r[2], LoadOutcomes)

(***************************************************************************)
(* The outro scan of check_quality (lines 152-163).  An audio is the list  *)
(* of its parts of PartMs milliseconds, each silent (far below the         *)
(* threshold of -40 dB) or loud (far above it); a chunk with a loud part   *)
(* is above the threshold.                                                 *)
(***************************************************************************)
PartMs == 500

chunk_size == 1000

OutroWindowMs == 10000

MaxTailParts == 23

Parts(n, kind) == [i \in 1..n |-> kind]

\* Up to one loud part, some silence, up to two loud parts, then silence.
Audios ==
    { Parts(a, "loud") \o Parts(b, "silent") \o Parts(c, "loud") \o Parts(d, "silent") :
          a \in 0..1, b \in 0..3, c \in 0..2, d \in 0..MaxTailParts }
    \ { << >> }

duration_of(audio) == PartMs * Len(audio)

Max(a, b) == IF a > b THEN a ELSE b

\* audio[i:j].dBFS < silence_threshold
chunk_is_silent(audio, i, j) ==
    \A k \in (i \div PartMs + 1)..(j \div PartMs) : audio[k] = "silent"

\* for i in range(max(0, duration_ms - 10000), duration_ms, chunk_size)
outro_start(audio) == Max(0, duration_of(audio) - OutroWindowMs)

RECURSIVE outro_scan_no_reset(_, _, _)
outro_scan_no_reset(audio, i, outro_silence_ms) ==
    IF i >= duration_of(audio) THEN outro_silence_ms
    ELSE outro_scan_no_reset(audio, i + chunk_size,
             IF chunk_is_silent(audio, i, Min(i + chunk_size, duration_of(audio)))
             THEN outro_silence_ms + chunk_size
             ELSE outro_silence_ms)

RECURSIVE outro_scan(_, _, _)
outro_scan(audio, i, outro_silence_ms) ==
    IF i >= duration_of(audio) THEN outro_silence_ms
    ELSE outro_scan(audio, i + chunk_size,
             IF chunk_is_silent(audio, i, Min(i + chunk_size, duration_of(audio)))
             THEN outro_silence_ms + chunk_size
             ELSE 0)

SilenceInit ==
    /\ OrchInit
    /\ AppleInit
    /\ ConcInit
    /\ FeedbackInit
    /\ LateInit
    /\ cache_file = AbsentFile
    /\ agent_state = "ready"
    /\ args \in Audios
    /\ returned = [done |-> FALSE]

ScanOutro ==
    /\ ~returned.done
    /\ returned' = [done |-> TRUE,
                    value |-> outro_scan(args, outro_start(args), 0)]
    /\ UNCHANGED << args, not_pure_vars >>

SilenceNext == ScanOutro

(***************************************************************************)
(* The failed-download test of generate_meditation (line 116) on what one  *)
(* call of download_audio returned, the cache being empty.                 *)
(***************************************************************************)
DownloadRequests ==
    {"calm", "terror"} \X {"english", "french"} \X Pool(archive_direct_files["calm"])

DownloadArgs ==
    UNION { { [mood |-> q[1], language |-> q[2], url |-> q[3], result |-> r] :
                r \in {x \in download_audio(<< >>, q[3], q[1], q[2]) : ~x.raised} } :
            q \in DownloadRequests }

ClassifyInit ==
    /\ OrchInit
    /\ AppleInit
    /\ ConcInit
    /\ FeedbackInit
    /\ LateInit
    /\ cache_file = AbsentFile
    /\ agent_state = "ready"
    /\ args \in DownloadArgs
    /\ returned = [done |-> FALSE]

ClassifyDownload ==
    /\ ~returned.done
    /\ returned' = [done |-> TRUE,
                    value |-> IsFailedDownload(args.result.fs, args.result.path)]
    /\ UNCHANGED << args, not_pure_vars >>

ClassifyNext == ClassifyDownload

(***************************************************************************)
(* The sources on a network that fails: what one exchange of               *)
(* _search_apple_music may come to, and what find_meditation makes of it.  *)
(* A JSON value is [t |-> its type, v |-> its members].  One call of one   *)
(* source is followed at a time.                                           *)
(***************************************************************************)
JNull == [t |-> "null"]

JNumber == [t |-> "number"]

JObject(members) == [t |-> "object", v |-> members]

JList(items) == [t |-> "list", v |-> items]

NoMembers == [k \in {} |-> JNull]

JTrack(i, ms) ==
    JObject([id |-> i, attributes |-> JObject([durationInMillis |-> ms])])

SongsOf(songs) == JObject([results |-> JObject([songs |-> songs])])

\* Bodies of a 200 answer that json() can decode.
JsonBodies ==
    { JNumber,
      JObject(NoMembers),
      JObject([errors |-> JList(<< >>)]),
      JObject([results |-> JNull]),
      JObject([results |-> JObject(NoMembers)]),
      SongsOf(JObject(NoMembers)),
      SongsOf(JObject([data |-> JList(<< >>)])),
      SongsOf(JObject([data |-> JList(<< JObject([id |-> "X"]) >>)])),
      SongsOf(JObject([data |-> JList(<< JTrack("A", 600000), JTrack("L", 900001) >>)])) }

SearchExchanges ==
    { [kind |-> "no_token"], [kind |-> "error"], [kind |-> "status_500"],
      [kind |-> "not_json"] }
    \cup { [kind |-> "ok", body |-> b] : b \in JsonBodies }

NoneResult == [t |-> "none"]

\* _search_apple_music: the decoded body of a 200 answer, None otherwise.
search_apple_music(x) == IF x.kind = "ok" THEN x.body ELSE NoneResult

\* bool(value)
truthy(j) ==
    CASE j.t \in {"none", "null"} -> FALSE
      [] j.t = "number" -> TRUE
      [] j.t = "object" -> DOMAIN j.v # {}
      [] j.t = "list" -> j.v # << >>

\* `key in value` raises TypeError on None and on a number.
in_raises(j) == j.t \in {"none", "null", "number"}

in_value(key, j) == j.t = "object" /\ key \in DOMAIN j.v

\* The body of the per-track try: the track is kept, or skipped (also when
\* an exception is caught).
track_is_kept(track, recent) ==
    /\ in_value("attributes", track)
    /\ track.v.attributes.t = "object"
    /\ in_value("durationInMillis", track.v.attributes)
    /\ 480000 <= track.v.attributes.v.durationInMillis
    /\ track.v.attributes.v.durationInMillis <= 900000
    /\ in_value("id", track)
    /\ track.v.id \notin Range(recent)

\* _filter_meditation_tracks on what _search_apple_music returned: the
\* tracks kept, or an exception out of the lines before the per-track try.
filter_search_results(sr, recent) ==
    IF ~truthy(sr) THEN [raised |-> FALSE, tracks |-> << >>]
    ELSE IF in_raises(sr) THEN [raised |-> TRUE, tracks |-> << >>]
    ELSE IF ~in_value("results", sr) THEN [raised |-> FALSE, tracks |-> << >>]
    ELSE IF in_raises(sr.v.results) THEN [raised |-> TRUE, tracks |-> << >>]
    ELSE IF ~in_value("songs", sr.v.results) THEN [raised |-> FALSE, tracks |-> << >>]
    ELSE IF ~in_value("data", sr.v.results.v.songs) THEN [raised |-> TRUE, tracks |-> << >>]
    ELSE IF sr.v.results.v.songs.v.data.t # "list" THEN [raised |-> TRUE, tracks |-> << >>]
    ELSE [ raised |-> FALSE,
           tracks |-> SelectSeq(sr.v.results.v.songs.v.data.v,
                                LAMBDA t : track_is_kept(t, recent)) ]

\* The searches of find_meditation on a cache miss, one exchange per query:
\* "raised", "candidate" or "not_found".
RECURSIVE search_all(_, _, _)
search_all(exchanges, recent, all_tracks) ==
    IF exchanges = << >>
    THEN IF all_tracks # << >> THEN "candidate" ELSE "not_found"
    ELSE LET sr == search_apple_music(Head(exchanges))
             f == IF truthy(sr) THEN filter_search_results(sr, recent)
                  ELSE [raised |-> FALSE, tracks |-> << >>]
         IN IF f.raised THEN "raised"
            ELSE search_all(Tail(exchanges), recent, all_tracks \o f.tracks)

\* AppleMusicAgent.find_meditation on an empty cache.
AppleFindOverNetwork(exchanges) ==
    /\ ~returned.done
    /\ openai_call.pc = "idle"
    /\ args' = [source |-> "apple", exchanges |-> exchanges]
    /\ returned' = [done |-> TRUE,
                    value |-> [outcome |-> search_all(exchanges, << >>, << >>)]]
    /\ UNCHANGED not_pure_vars

\* AudioRetrieverAgent.find_meditation: it returns a curated URL before any
\* request is made.
RetrieverFindOverNetwork(m, l) ==
    /\ ~returned.done
    /\ openai_call.pc = "idle"
    /\ args' = [source |-> "retriever", mood |-> m, language |-> l]
    /\ returned' = [done |-> TRUE,
                    value |-> [outcome |-> IF find_meditation(m, l) # {}
                                           THEN "candidate" ELSE "not_found"]]
    /\ UNCHANGED not_pure_vars

SourceNext ==
    \/ \E x1, x2, x3 \in SearchExchanges : AppleFindOverNetwork(<< x1, x2, x3 >>)
    \/ \E r \in SpelledRequests : RetrieverFindOverNetwork(r[1], r[2])
    \/ ~returned.done /\ OpenAINext

vars == << orch_vars, apple_vars, conc_vars, load_vars, pure_vars,
          feedback_vars, late_vars >>

Init ==
    /\ OrchInit
    /\ AppleInit
    /\ ConcInit
    /\ FeedbackInit
    /\ LateInit
    /\ cache_file = AbsentFile
    /\ agent_state = "ready"
    /\ PureInit

Next == OrchNext

Spec == Init /\ [][Next]_vars

AppleSpec == Init /\ [][AppleNext]_vars

WideSpec == Init /\ [][WideNext]_vars

ConcSpec == Init /\ [][ConcNext]_vars

LoadSpec == LoadInit /\ [][LoadNext]_vars

DurSpec == DurInit /\ [][DurNext]_vars

QualSpec == QualInit /\ [][QualNext]_vars

FeedbackSpec == Init /\ [][FeedbackNext]_vars

SpelledSpec == Init /\ [][SpelledNext]_vars

RunsSpec == Init /\ [][RunsNext]_vars

ClassifySpec == ClassifyInit /\ [][ClassifyNext]_vars

SilenceSpec == SilenceInit /\ [][SilenceNext]_vars

SaveSpec == Init /\ [][SaveNext]_vars

SchedSpec == Init /\ [][SchedNext]_vars

FormSpec == Init /\ [][FormNext]_vars

SourceSpec == Init /\ [][SourceNext]_vars

\* Every exchange with the network returns in the end, with an answer, an
\* error or a timeout.
OpenAISpec == Init /\ [][OpenAINext]_vars /\ WF_vars(OpenAIStep)

(***************************************************************************)
(* Properties of generate_meditation, checked under Spec.                  *)
(***************************************************************************)
Returned == pc = "done"

ResultExists == final_audio_path # NoPath /\ Exists(fs, final_audio_path)

\* The content of the returned file came from a URL of the retriever's pools.
ResultIsCandidate == ResultExists /\ fs[final_audio_path].src \in PoolUrls

\* The checker's verdict on the candidate the returned content came from.
ResultWasRejected == fs[final_audio_path].q \in {"bad", "badlong"}

\* C1: for every mood (a string) and language, a run of generate_meditation
\* that returns hands back a non-empty reference, the path of a file that
\* exists and is not empty, whatever the downloads of the run did.
C1_ReturnsNonEmptyFile ==
    Returned /\ mood # NoneMood =>
        ResultExists /\ getsize(fs, final_audio_path) > 0

\* C2: generate_meditation never raises to its caller: every failure inside
\* the attempt loop and inside the post-loop fallback phase is absorbed.
C2_NeverRaises == pc # "raised"

\* C3: when the run returns without an accepted candidate, the returned file
\* holds the content of the hardcoded fallback reference and is not empty.
C3_ExhaustedGivesHardcodedFallback ==
    Returned /\ mood # NoneMood /\ via # "accepted" =>
        /\ ResultExists
        /\ getsize(fs, final_audio_path) > 0
        /\ fs[final_audio_path].src = fallback_url

C5_ExcludedNeverDownloaded ==
    pc \in {"download", "quality"} => meditation_url \notin failed_urls

\* C5 as amended: a URL already in failed_urls is handed to the downloader or
\* the quality checker again only after all max_url_attempts queries of the
\* attempt returned excluded URLs.
C5_ExcludedOnlyAfterAllQueries ==
    pc \in {"download", "quality"} /\ meditation_url \in failed_urls =>
        url_attempt = max_url_attempts

C5_Witness ==
    pc = "quality" /\ meditation_url \in failed_urls

\* The URL whose file the attempt loop kept, if it kept one.
AdoptedUrl ==
    IF via \in {"accepted", "last_attempt"} THEN {meditation_url} ELSE {}

\* C6: when an attempt starts, and when the loop is over, every URL an
\* earlier attempt handed to the downloader without keeping its file is in
\* failed_urls, whether the download failed, the file was undersized, the
\* checker rejected it or an exception was raised.
C6_TriedUrlsAreExcluded ==
    /\ pc = "find" /\ url_attempt = 0 => handed \subseteq failed_urls
    /\ pc \in {"post", "lastfb", "cleanup", "done", "raised"} =>
           (handed \ AdoptedUrl) \subseteq failed_urls

C6_Witness ==
    /\ Returned
    /\ via = "accepted"
    /\ attempt = 3
    /\ Cardinality(failed_urls) = 2
    /\ (handed \ AdoptedUrl) \subseteq failed_urls

\* C7 as stated: once the checker has accepted a candidate, the run issues no
\* further source query, download or quality check, and returns that candidate.
C7_NoWorkAfterAcceptance ==
    accepted_url # NoUrl =>
        /\ pc \in {"adopt", "post", "cleanup", "done"}
        /\ Returned => ResultExists /\ fs[final_audio_path].src = accepted_url

\* C7 as amended: once an accepted candidate has been copied to the output
\* path, the run issues no further source query, download or quality check,
\* and the returned file holds that candidate.
C7_NoWorkAfterAdoption ==
    via = "accepted" =>
        /\ pc \in {"post", "cleanup", "done"}
        /\ accepted_url = meditation_url
        /\ ResultExists
        /\ fs[final_audio_path].src = accepted_url
        /\ ~ResultWasRejected

C7_Witness == Returned /\ via = "accepted" /\ attempt = 2

\* C8: a run makes at most 5 attempts, an attempt makes at most 3 source
\* queries, and a query is repeated only when the URL just returned is in
\* failed_urls.
C8_AttemptBudget ==
    /\ attempt <= 5
    /\ url_attempt <= 3
    /\ pc = "find" /\ url_attempt > 0 => meditation_url \in failed_urls

C8_Witness == pc = "download" /\ attempt = 5 /\ url_attempt = 3

(***************************************************************************)
(* Properties of AppleMusicAgent.find_meditation, checked under AppleSpec. *)
(***************************************************************************)
CacheHit == last_call.cached # << >>

AllCachedRecentlyUsed == Ids(last_call.cached) \subseteq Range(last_call.recent)

\* C9: when the cache holds tracks for the key and all of them are recently
\* used, find_meditation returns one of the cached tracks and makes no search.
C9_CacheStarvationGuard ==
    CacheHit /\ AllCachedRecentlyUsed =>
        /\ last_call.result \in Ids(last_call.cached)
        /\ last_call.searches = 0

C9_Witness ==
    /\ CacheHit
    /\ AllCachedRecentlyUsed
    /\ Cardinality(Ids(last_call.cached)) = 2

\* C10: when the cache holds a track for the key that is not recently used,
\* find_meditation returns a cached track that was not recently used when
\* the call was made.
C10_PicksNotRecentlyUsed ==
    CacheHit /\ ~AllCachedRecentlyUsed =>
        /\ last_call.result \in Ids(last_call.cached)
        /\ last_call.result \notin Range(last_call.recent)

C10_Witness ==
    /\ CacheHit
    /\ ~AllCachedRecentlyUsed
    /\ Ids(last_call.cached) \cap Range(last_call.recent) # {}

(***************************************************************************)
(* Properties of the recently-used list, checked under WideSpec.           *)
(***************************************************************************)
\* The last n elements of a sequence (the whole sequence when it is shorter).
LastN(q, n) == IF Len(q) <= n THEN q ELSE SubSeq(q, Len(q) - n + 1, Len(q))

IsInjective(q) == \A i, j \in 1..Len(q) : q[i] = q[j] => i = j

\* C11: recently_used_tracks never holds more than 5 identifiers; a call that
\* returns a track appends its identifier and keeps the 5 newest, so that the
\* oldest is the one evicted; a list of 5 distinct identifiers to which a
\* sixth distinct one was added holds exactly the 5 newest, all distinct.
C11_RecentlyUsedKeepsFiveNewest ==
    /\ Len(recently_used_tracks) <= 5
    /\ last_call.result # NoTrack =>
           recently_used_tracks = LastN(Append(last_call.recent, last_call.result), 5)
    /\ ( /\ last_call.result # NoTrack
         /\ Len(last_call.recent) = 5
         /\ IsInjective(Append(last_call.recent, last_call.result)) ) =>
           /\ Cardinality(Range(recently_used_tracks)) = 5
           /\ last_call.recent[1] \notin Range(recently_used_tracks)
           /\ Range(recently_used_tracks) =
                  (Range(last_call.recent) \ {last_call.recent[1]})
                      \cup {last_call.result}

C11_Witness ==
    /\ last_call.result # NoTrack
    /\ Len(last_call.recent) = 5
    /\ IsInjective(Append(last_call.recent, last_call.result))
    /\ Len(recently_used_tracks) = 5

(***************************************************************************)
(* Properties of the search cache, checked under WideSpec.                 *)
(***************************************************************************)
IsPrefix(p, q) == Len(p) <= Len(q) /\ SubSeq(q, 1, Len(p)) = p

\* C12: in every step of a sequence of find_meditation calls, a key whose
\* cached list is not empty keeps that list as a prefix of its list after the
\* step: the list is never shortened, reordered or replaced, and none of its
\* tracks is changed.
C12_CacheAppendOnly ==
    [][\A k \in DOMAIN search_cache :
          search_cache[k] # << >> =>
              /\ k \in DOMAIN search_cache'
              /\ IsPrefix(search_cache[k], search_cache'[k])]_vars

C12_Witness ==
    /\ CacheHit
    /\ AllCachedRecentlyUsed
    /\ Len(last_call.cached) = 3
    /\ search_cache[last_call.key] = last_call.cached

(***************************************************************************)
(* Properties of concurrent calls, checked under ConcSpec.                 *)
(***************************************************************************)
BothStoredUnderOneKey ==
    /\ \A t \in Tasks : calls[t].pc = "done" /\ calls[t].stored # << >>
    /\ calls[1].key = calls[2].key

\* C13: when two concurrent calls for one key both missed the cache and both
\* stored a list, the cached list of the key holds the tracks each of them
\* stored.
C13_NoLostUpdate ==
    BothStoredUnderOneKey =>
        \A t \in Tasks :
            Range(calls[t].stored) \subseteq Range(search_cache[calls[t].key])

(***************************************************************************)
(* Properties of the load of the persisted cache, checked under LoadSpec.  *)
(***************************************************************************)
\* C14: an agent built from malformed persisted data starts with an empty
\* cache, and no call of find_meditation on it raises.
C14_MalformedLoadsAsEmpty ==
    cache_file \in MalformedFiles /\ agent_state # "unbuilt" =>
        /\ agent_state = "ready"
        /\ apple_calls = 0 => search_cache = << >>

(***************************************************************************)
(* Properties of the duration predicates, checked under DurSpec.           *)
(***************************************************************************)
TotalSeconds(d) == d.hh * 3600 + d.mm * 60 + d.ss

InDeclaredRange(d) == 480 <= TotalSeconds(d) /\ TotalSeconds(d) <= 900

\* C15: for a duration written as MM:SS, HH:MM:SS or N min / N minutes, both
\* duration predicates answer "suitable" exactly when its total number of
\* seconds is between 480 and 900; a value with an hours component greater
\* than 0 is not suitable.
C15_SuitableIffInRange ==
    returned.done =>
        /\ returned.value.suitable = InDeclaredRange(args)
        /\ returned.value.suitable_text = InDeclaredRange(args)
        /\ args.hh > 0 => ~returned.value.suitable /\ ~returned.value.suitable_text

(***************************************************************************)
(* Properties of check_quality, checked under QualSpec.                    *)
(***************************************************************************)
MissingOrEmpty == ~args.exists \/ args.size = 0

\* C16 as stated: check_quality on a missing or 0-byte artifact returns not
\* accepted with the issue "empty file", without loading the audio.
C16_EmptyFileIssue ==
    returned.done /\ MissingOrEmpty =>
        /\ ~returned.value.is_acceptable
        /\ returned.value.error = "empty file"
        /\ ~returned.value.loaded

\* C16 as amended: check_quality on a missing artifact returns not accepted
\* with the error "File does not exist", and on an artifact smaller than
\* 1024 bytes (a 0-byte one included) with the error "File too small"; in
\* both cases the audio is not loaded and no issue is measured.
C16_MissingOrTooSmallRejected ==
    returned.done /\ (~args.exists \/ args.size < 1024) =>
        /\ ~returned.value.is_acceptable
        /\ returned.value.error =
               (IF args.exists THEN "File too small" ELSE "File does not exist")
        /\ ~returned.value.loaded
        /\ returned.value.issues = << >>

C16_Witness ==
    /\ returned.done
    /\ args.exists
    /\ args.size = 0
    /\ args.loadable
    /\ returned.value.error = "File too small"

InFallbackNotIdeal(ms) ==
    /\ 300000 <= ms /\ ms <= 900000
    /\ ms < 480000 \/ ms > 720000

Measured == returned.done /\ returned.value.loaded /\ args.loadable

NoOtherIssue ==
    /\ args.bit_rate >= 64000
    /\ args.frame_rate >= 22050
    /\ args.dBFS >= -45
    /\ args.intro_silence_ms <= 15000
    /\ args.outro_silence_ms <= 5000

\* C17: an artifact whose duration is outside 8-12 minutes but inside 5-15
\* minutes and which has no other issue is accepted, with exactly one issue
\* recorded.
C17_SoftPass ==
    Measured /\ InFallbackNotIdeal(args.duration_ms) /\ NoOtherIssue =>
        /\ returned.value.is_acceptable
        /\ Len(returned.value.issues) = 1

C17_Witness ==
    /\ Measured
    /\ args.duration_ms = 420000
    /\ NoOtherIssue
    /\ returned.value.is_acceptable
    /\ returned.value.issues = << "outside ideal range" >>

HardReject ==
    \/ args.duration_ms < 300000
    \/ args.duration_ms > 900000
    \/ args.bit_rate < 64000
    \/ args.frame_rate < 22050
    \/ args.dBFS < -45

\* C18: an artifact whose duration is outside 5-15 minutes, whose bitrate is
\* below 64 kbps, whose sample rate is below 22050 Hz or whose loudness is
\* below -45 dBFS is never accepted, whatever its other measurements are.
C18_HardRejects ==
    returned.done /\ HardReject => ~returned.value.is_acceptable

C18_Witness ==
    /\ Measured
    /\ args.bit_rate = 63999
    /\ args.duration_ms = 480000
    /\ args.frame_rate = 44100
    /\ args.dBFS = -20
    /\ args.intro_silence_ms = 0
    /\ args.outro_silence_ms = 0
    /\ returned.value.issues = << "Bitrate too low" >>
    /\ ~returned.value.is_acceptable

(***************************************************************************)
(* Properties of get_personalized_recommendations, checked under           *)
(* FeedbackSpec.                                                           *)
(***************************************************************************)
IndexOf(items, name) == CHOOSE i \in 1..Len(items) : items[i].name = name

\* Item i ranks before item j: more positive ratings, then a larger total
\* count, then earlier insertion.
RanksBeforeWithCount(items, i, j) ==
    \/ items[i].positive > items[j].positive
    \/ /\ items[i].positive = items[j].positive
       /\ items[i].count > items[j].count
    \/ /\ items[i].positive = items[j].positive
       /\ items[i].count = items[j].count
       /\ i < j

\* Item i ranks before item j: more positive ratings, then earlier insertion.
RanksBefore(items, i, j) ==
    \/ items[i].positive > items[j].positive
    \/ items[i].positive = items[j].positive /\ i < j

\* names lists, in rank order, the three items that rank first (all of them
\* when there are fewer).
ListsTopThree(items, names, Before(_, _, _)) ==
    /\ Len(names) = Min(3, Len(items))
    /\ Range(names) \subseteq Names(items)
    /\ \A a, b \in 1..Len(names) :
           a < b => Before(items, IndexOf(items, names[a]), IndexOf(items, names[b]))
    /\ \A a \in 1..Len(names), j \in 1..Len(items) :
           items[j].name \notin Range(names) =>
               Before(items, IndexOf(items, names[a]), j)

Categories == {"preferred_moods", "preferred_artists", "preferred_durations"}

\* C19 as stated: the recommendations list the moods, artists and durations
\* by positive count descending, ties broken by total count descending and
\* then by insertion order.
C19_SortedWithCountTieBreak ==
    recommendations.done =>
        \A c \in Categories :
            ListsTopThree(recommendations.of[c], recommendations.value[c],
                          RanksBeforeWithCount)

\* C19 as amended: the recommendations list the first three moods, artists
\* and durations by positive count descending, ties in insertion order; the
\* total count is not read.
C19_SortedStable ==
    recommendations.done =>
        \A c \in Categories :
            ListsTopThree(recommendations.of[c], recommendations.value[c],
                          RanksBefore)

C19_Witness ==
    /\ recommendations.done
    /\ LET items == recommendations.of["preferred_moods"]
           names == recommendations.value["preferred_moods"]
       IN  /\ Len(items) = 2
           /\ items[1].positive = items[2].positive
           /\ items[1].count < items[2].count
           /\ names = << items[1].name, items[2].name >>

(***************************************************************************)
(* Properties of the lookup keys, checked under SpelledSpec.               *)
(***************************************************************************)
SameRequest(r1, r2) ==
    lower_strip(r1[1]) = lower_strip(r2[1]) /\ lower_strip(r1[2]) = lower_strip(r2[2])

\* C20: two requests whose mood and language differ only in letter case or
\* surrounding blanks draw from the same curated pool and are given the
\* same cache key, so that they see the same cached list.
C20_SpellingsShareKey ==
    \A r1, r2 \in SpelledRequests :
        SameRequest(r1, r2) =>
            /\ find_meditation(r1[1], r1[2]) = find_meditation(r2[1], r2[2])
            /\ cache_key(r1[1], r1[2]) = cache_key(r2[1], r2[2])
            /\ CachedTracks(search_cache, cache_key(r1[1], r1[2]))
                   = CachedTracks(search_cache, cache_key(r2[1], r2[2]))

(***************************************************************************)
(* Properties of OpenAIMeditationAgent.find_meditation, checked under      *)
(* OpenAISpec.                                                             *)
(***************************************************************************)
OpenAIReturnsChecked ==
    /\ openai_call.model_calls <= max_validation_attempts
    /\ openai_call.pc = "returned" =>
           /\ openai_call.result # ""
           /\ \/ openai_call.result \in openai_call.validated
              \/ openai_call.result \in Range(fallback_videos)

C21_SourcesNeverRaise ==
    /\ returned.done => returned.value.outcome \in {"candidate", "not_found"}
    /\ openai_call.pc \in {"idle", "loop", "validate", "returned"}

(***************************************************************************)
(* Properties of successive calls on one orchestrator, checked under       *)
(* RunsSpec.                                                               *)
(***************************************************************************)
\* C23: a URL that was in failed_urls when a call of generate_meditation
\* ended is still in failed_urls during every later call on the same
\* orchestrator.
C23_ExcludedAcrossCalls == earlier_failed \subseteq failed_urls

(***************************************************************************)
(* Properties of the failed-download test, checked under ClassifySpec.     *)
(***************************************************************************)
\* The downloader stored what the server sent for the URL in the cache file.
Obtained(a) ==
    /\ a.result.path.kind = "cache"
    /\ a.result.fs[a.result.path].src = a.url

\* C24: the orchestrator classifies the result of download_audio as a failed
\* download exactly when the downloader did not obtain the content of the
\* URL: a fallback file is never taken for the candidate, and a download that
\* succeeded is never classified as failed.
C24_FailedIffNotObtained ==
    returned.done => (returned.value <=> ~Obtained(args))

(***************************************************************************)
(* Properties of consecutive calls for one key, checked under WideSpec.    *)
(***************************************************************************)
\* C25: when the cache holds at least two tracks for the key, a call of
\* find_meditation does not return the track that the call before it
\* returned (the newest entry of recently_used_tracks).
C25_NoImmediateRepeat ==
    ( /\ CacheHit
      /\ Cardinality(Ids(last_call.cached)) >= 2
      /\ last_call.recent # << >>
      /\ last_call.result # NoTrack ) =>
        last_call.result # last_call.recent[Len(last_call.recent)]

(***************************************************************************)
(* Properties of the outro scan, checked under SilenceSpec.                *)
(***************************************************************************)
\* The chunks the scan visits, as (start, end) in milliseconds, in order.
ScannedChunks(audio) ==
    [ n \in 1..((duration_of(audio) - outro_start(audio) + chunk_size - 1) \div chunk_size) |->
        << outro_start(audio) + (n - 1) * chunk_size,
           Min(outro_start(audio) + n * chunk_size, duration_of(audio)) >> ]

\* The length of the silence at the end of the audio, in whole parts.
RECURSIVE TrailingSilenceMs(_)
TrailingSilenceMs(audio) ==
    IF audio = << >> \/ audio[Len(audio)] # "silent" THEN 0
    ELSE PartMs + TrailingSilenceMs(SubSeq(audio, 1, Len(audio) - 1))

\* The 1-second chunks counted back from the end of the audio that lie in
\* its trailing silence.
TrailingRunMs(audio) == chunk_size * (TrailingSilenceMs(audio) \div chunk_size)

\* C26 as stated: the trailing silence reported is the total length of the
\* run of consecutive silent 1-second chunks that ends at the end of the
\* audio.
C26_OutroIsTrailingRun ==
    returned.done => returned.value = TrailingRunMs(args)

\* C26: the trailing silence reported is chunk_size times the number n of
\* chunks at the end of the scan of the last 10 seconds that are silent one
\* after the other: the last n chunks scanned are silent, the chunk before
\* them, if the scan visited one, is not, and a chunk cut short by the end of
\* the audio counts as a whole one.
C26_OutroIsRunInWindow ==
    returned.done =>
        LET chunks == ScannedChunks(args)
            n == returned.value \div chunk_size
        IN  /\ returned.value = n * chunk_size
            /\ n <= Len(chunks)
            /\ \A k \in (Len(chunks) - n + 1)..Len(chunks) :
                   chunk_is_silent(args, chunks[k][1], chunks[k][2])
            /\ n < Len(chunks) =>
                   ~chunk_is_silent(args, chunks[Len(chunks) - n][1],
                                    chunks[Len(chunks) - n][2])

\* Silence, a loud chunk, then silence to the end, all inside the window.
C26_Witness ==
    /\ returned.done
    /\ returned.value = 2 * chunk_size
    /\ Len(args) = 9
    /\ args[1] = "silent"
    /\ args[4] = "loud"

(***************************************************************************)
(* Properties of should_show_feedback_form, checked under FormSpec.        *)
(***************************************************************************)
\* The times at which the feedback of user u was saved.
SavedAt(entries, u) == {entries[i].timestamp : i \in {j \in 1..Len(entries) : entries[j].by = u}}

\* C27: should_show_feedback_form(user_id) returns False when the feedback
\* of that user was saved less than one day ago, and True when no feedback
\* of the user was saved or the last one is at least one day old.
C27_FormShownOncePerDay ==
    form_asked.done =>
        ( form_asked.value <=>
              \A t \in SavedAt(form_asked.entries, form_asked.user_id) :
                  form_asked.at - t >= UnitsPerDay )

(***************************************************************************)
(* Properties of save_feedback, checked under SaveSpec.                    *)
(***************************************************************************)
\* C28: when save_feedback returns False, the feedback data in memory (the
\* entries and the preference counters) is what it was before the call.
C28_FailedSaveChangesNothing ==
    (last_save.done /\ ~last_save.value) => feedback_data = last_save.before

(***************************************************************************)
(* Properties of the reminder scheduler, checked under SchedSpec.          *)
(***************************************************************************)
\* The threads inside the loop of run_scheduler_thread.
ActiveLoops == {t \in Threads : thread_pc[t] = "loop"}

\* C29: at most one scheduler loop is active at any time, however often
\* and from however many threads init_scheduler and start_scheduler are
\* called.
C29_AtMostOneLoop == Cardinality(ActiveLoops) <= 1

(***************************************************************************)
(* Properties of the length of the delivered audio, checked under Spec.    *)
(***************************************************************************)
\* A content longer than max_duration_ms (12 minutes) that was not cut to
\* target_duration_ms.
IsLong(c) == c.q \in {"goodlong", "badlong"} /\ ~c.trimmed

\* C30: the audio that generate_meditation delivers is never longer than
\* 12 minutes: a candidate that is longer is delivered cut to the target
\* of 10 minutes.
C30_DeliveredNotLong ==
    (pc = "done" /\ final_audio_path # NoPath /\ Exists(fs, final_audio_path))
        => ~IsLong(fs[final_audio_path])

====
